---- MODULE Spec2Model ----
(***************************************************************************)
(* Shutdown coordinator of the process supervisor (main.rs, config.rs,     *)
(* platform_specific.rs): the ctrl_c listener task, the platform           *)
(* terminator, the resource reclaimer and the SystemConfig atomics, racing *)
(* against the main task.                                                  *)
(*                                                                         *)
(* Spec     one run of the process: main task, listener task, the          *)
(*          operating system's delivery of interrupts and of the           *)
(*          termination the terminator asks for.                           *)
(* ApiSpec  SystemConfig alone, shared by the coordinator and by further   *)
(*          request_shutdown callers.                                      *)
(***************************************************************************)
EXTENDS Integers, FiniteSets, Sequences, TLC

VARIABLES
    platform,         \* cfg(unix) / cfg(windows): which handle_shutdown is built
    shutdown_signal,  \* SystemConfig.shutdown_signal (AtomicBool)
    shutdown_state,   \* SystemConfig.shutdown_state (AtomicUsize)
    m_pc,             \* main task: position in main()
    m_res,            \* main task: value main() returns ("none" until it returns)
    l_pc,             \* listener task: position in the spawned async block
    hs_ret,           \* what handle_shutdown returned ("none" until it returns)
    cl_ret,           \* what cleanup_resources returned ("none" until it returns)
    hs_calls,         \* number of handle_shutdown calls made
    cl_calls,         \* number of cleanup_resources calls made
    handle,           \* windows: the process handle ("none", "open", "closed", "leaked")
    terminate_result, \* windows: TerminateProcess's result (0 failure, 1 success, -1 not called)
    close_result,     \* windows: CloseHandle's result (0 failure, 1 success, -1 not called)
    cl_inner,         \* value of the async block wrapped by timeout ("none" while running)
    cl_elapsed,       \* seconds since cleanup_resources armed its timeout
    gc_result,        \* reclaimer: "none", "ok", "err" of gc.collect()
    rm_result,        \* reclaimer: "none", "ok", "err" of remove_dir_all
    cache_exists,     \* target/playwright-cache exists on disk
    interrupts,       \* SIGINTs delivered to the process so far
    handler_installed,\* tokio's SIGINT handler is registered (ctrl_c() was polled successfully)
    sigint_pending,   \* a SIGINT reached the waiting ctrl_c() future and has not been consumed
    term_pending,     \* the OS was asked to terminate this process (SIGTERM sent / TerminateProcess ok)
    proc,             \* "alive" / "dead"
    exit_status,      \* "none", "0", "1", "SIGTERM", "SIGINT"
    c_pc,             \* ApiSpec: each caller's position in request_shutdown
    c_calls,          \* ApiSpec: request_shutdown calls each caller has completed
    c_left,           \* ApiSpec: <<signal, state>> as each caller's previous call left them
    co_pc,            \* ApiSpec: the coordinator's position
    GLOBAL_DEVICES,   \* emulation.rs: the OnceCell; 0 while unset, else the manager it holds
    heap,             \* the DeviceManager objects created so far, behind their RwLock
    t_pc,             \* EmuSpec: each task's position in initialize_emulation or in a lookup
    t_op,             \* EmuSpec: the call each task is in or made last
    t_dm,             \* EmuSpec: the manager each task holds a reference to (0: none)
    t_res,            \* EmuSpec: what each task's last call returned
    t_ops,            \* EmuSpec: calls the tasks have made so far, all together
    seen_metadata,    \* EmuSpec: <<device id, value>> of every successful get_device_metadata
    seen_browser      \* EmuSpec: <<device id, value>> of every successful get_device_browser

cfgVars  == <<shutdown_signal, shutdown_state>>
mainVars == <<m_pc, m_res>>
lstVars  == <<l_pc, hs_ret, cl_ret, hs_calls, cl_calls>>
winVars  == <<handle, terminate_result, close_result>>
clVars   == <<cl_inner, cl_elapsed, gc_result, rm_result>>
osVars   == <<interrupts, handler_installed, sigint_pending, term_pending, proc, exit_status>>
apiVars  == <<c_pc, c_calls, c_left, co_pc>>
taskVars == <<t_pc, t_op, t_dm, t_res, t_ops, seen_metadata, seen_browser>>
emuVars  == <<GLOBAL_DEVICES, heap, taskVars>>
vars     == <<platform, cfgVars, mainVars, lstVars, winVars, clVars, cache_exists,
              osVars, apiVars, emuVars>>

(***************************************************************************)
(* Bounds of the model.                                                    *)
(***************************************************************************)
MaxInterrupts == 2
MaxStepSecs == 3
NumCallers == 2
MaxCalls == 2
NumTasks == 2
MaxOps == 3

(***************************************************************************)
(* config.rs                                                               *)
(***************************************************************************)
Running == 0
ShuttingDown == 1
Completed == 2

ShutdownState == {Running, ShuttingDown, Completed}

\* SystemConfig::new
SystemConfig_new ==
    /\ shutdown_signal = FALSE
    /\ shutdown_state = Running

\* set_shutdown_state: an unconditional store
set_shutdown_state(state) == shutdown_state' = state

\* request_shutdown, first statement: shutdown_signal.store(true)
request_shutdown_signal_Clear == shutdown_signal' = FALSE
request_shutdown_signal == shutdown_signal' = TRUE

\* request_shutdown, the state it hands to set_shutdown_state
RequestedState_Wrong == Running
RequestedState_Next == IF shutdown_state < Completed THEN shutdown_state + 1 ELSE Completed
RequestedState == ShuttingDown

\* request_shutdown, second statement: self.set_shutdown_state(ShuttingDown)
request_shutdown_state == set_shutdown_state(RequestedState)

(***************************************************************************)
(* platform_specific.rs: cleanup                                           *)
(***************************************************************************)
CLEANUP_TIMEOUT == 5

\* tokio's Timeout polls the wrapped future first and looks at the deadline
\* only when that future is pending.
TimeoutPoll(inner_ready, inner_value, elapsed) ==
    IF inner_ready THEN inner_value
    ELSE IF elapsed >= CLEANUP_TIMEOUT THEN "timeout"
    ELSE "pending"

Alive == proc = "alive"

\* The listener is inside a poll: between two suspension points of its future.
\* Its only suspension point is ctrl_c().await.
InPoll == l_pc \notin {"spawned", "wait", "done"}

(***************************************************************************)
(* emulation.rs: the device catalog                                        *)
(***************************************************************************)
\* DeviceManager::generate_ios_metadata (pixel_ratio, an f32, is kept as its literal)
generate_ios_metadata(device_id) ==
    [device_id |-> device_id,
     platform |-> "IOS",
     app_version |-> "11.3.1",
     user_agent |-> "Mozilla/5.0 (iPhone; CPU iPhone OS 16_0 like Mac OS X) AppleWebKit/605.1.15 (KHTML, like Gecko) Version/16.0 Mobile/15E148 Safari/604.1",
     screen_metrics |-> [width |-> 390, height |-> 844, pixel_ratio |-> "3.0",
                         touch_points |-> 5],
     language |-> "en-US", lang_code |-> "en", timezone |-> "UTC",
     webview_data |-> [engine_version |-> "605.1.15",
                       supported_apis |-> <<"WebKit", "WebGL", "WebRTC">>,
                       webkit_flags |-> "Some", chrome_flags |-> "None"],
     hardware_info |-> [model |-> "iPhone 14 Pro", platform_version |-> "iOS 11.3.1",
                        memory |-> "6GB", cpu_cores |-> 6, gpu_renderer |-> "Apple GPU"],
     connection_info |-> [network_type |-> "wifi", bandwidth |-> "10mbps", rtt |-> 50,
                          throughput |-> 1000]]

generate_android_metadata_BothFlags(device_id) ==
    [generate_ios_metadata(device_id) EXCEPT !.platform = "Android",
                                             !.webview_data.chrome_flags = "Some"]

\* DeviceManager::generate_android_metadata
generate_android_metadata(device_id) ==
    [device_id |-> device_id,
     platform |-> "Android",
     app_version |-> "11.3.1",
     user_agent |-> "Mozilla/5.0 (Linux; Android 13; SM-G998B) AppleWebKit/537.36 (KHTML, like Gecko) Chrome/97.0.4692.98 Mobile Safari/537.36",
     screen_metrics |-> [width |-> 412, height |-> 915, pixel_ratio |-> "2.625",
                         touch_points |-> 5],
     language |-> "en-US", lang_code |-> "en", timezone |-> "UTC",
     webview_data |-> [engine_version |-> "97.0.4692.98",
                       supported_apis |-> <<"WebView", "WebGL", "WebRTC">>,
                       webkit_flags |-> "None", chrome_flags |-> "Some"],
     hardware_info |-> [model |-> "Samsung Galaxy S21 Ultra", platform_version |-> "Android 13",
                        memory |-> "12GB", cpu_cores |-> 8, gpu_renderer |-> "Adreno 660"],
     connection_info |-> [network_type |-> "5g", bandwidth |-> "20mbps", rtt |-> 30,
                          throughput |-> 2000]]

Insert_KeepOld(devices, key, device) ==
    [k \in (DOMAIN devices) \cup {key} |-> IF k \in DOMAIN devices THEN devices[k] ELSE device]

\* HashMap::insert: the entry under `key` is added or replaced
Insert(devices, key, device) ==
    [k \in (DOMAIN devices) \cup {key} |-> IF k = key THEN device ELSE devices[k]]

create_ios_device_OtherAgent(devices, device_id) ==
    LET metadata == generate_ios_metadata(device_id)
        webkit_config == [variant |-> "Webkit",
                          user_agent |-> generate_android_metadata(device_id).user_agent,
                          webkit_version |-> "605.1.15",
                          platform_version |-> metadata.hardware_info.platform_version,
                          build_number |-> "15E148"]
    IN  Insert(devices, device_id, [metadata |-> metadata, browser |-> webkit_config])

\* DeviceManager::create_ios_device: the devices map after the call
create_ios_device(devices, device_id) ==
    LET metadata == generate_ios_metadata(device_id)
        webkit_config == [variant |-> "Webkit",
                          user_agent |-> metadata.user_agent,
                          webkit_version |-> "605.1.15",
                          platform_version |-> metadata.hardware_info.platform_version,
                          build_number |-> "15E148"]
    IN  Insert(devices, device_id, [metadata |-> metadata, browser |-> webkit_config])

create_android_device_Webkit(devices, device_id) ==
    LET metadata == generate_android_metadata(device_id)
        webkit_config == [variant |-> "Webkit",
                          user_agent |-> metadata.user_agent,
                          webkit_version |-> "605.1.15",
                          platform_version |-> metadata.hardware_info.platform_version,
                          build_number |-> "15E148"]
    IN  Insert(devices, device_id, [metadata |-> metadata, browser |-> webkit_config])

\* DeviceManager::create_android_device: the devices map after the call
create_android_device(devices, device_id) ==
    LET metadata == generate_android_metadata(device_id)
        chrome_config == [variant |-> "ChromiumBased",
                          user_agent |-> metadata.user_agent,
                          chrome_version |-> "97.0.4692.98",
                          webview_version |-> metadata.webview_data.engine_version,
                          build_version |-> "4692.98"]
    IN  Insert(devices, device_id, [metadata |-> metadata, browser |-> chrome_config])

\* DeviceManager::new: an empty map (behind a fresh, unlocked RwLock)
DeviceManager_new == [devices |-> [k \in {} |-> k], writer |-> 0, readers |-> {}]

Tasks == 1..NumTasks

NoOp == [kind |-> "none", device_id |-> ""]
NoResult == [tag |-> "none"]

\* Before any call: static GLOBAL_DEVICES = OnceCell::new()
EmuStart ==
    /\ GLOBAL_DEVICES = 0
    /\ heap = <<>>
    /\ t_pc = [t \in Tasks |-> "idle"]
    /\ t_op = [t \in Tasks |-> NoOp]
    /\ t_dm = [t \in Tasks |-> 0]
    /\ t_res = [t \in Tasks |-> NoResult]
    /\ t_ops = 0
    /\ seen_metadata = {}
    /\ seen_browser = {}

(***************************************************************************)
(* main.rs: the listener task (the async block given to tokio::spawn)      *)
(***************************************************************************)
\* ctrl_c() polled for the first time: the SIGINT handler is registered and the
\* future stays pending, or registration fails and `if let Ok(())` skips the body.
ListenerRegister ==
    /\ Alive /\ l_pc = "spawned"
    /\ \/ /\ handler_installed' = TRUE
          /\ l_pc' = "wait"
       \/ /\ handler_installed' = FALSE
          /\ l_pc' = "done"
    /\ UNCHANGED <<platform, cfgVars, mainVars, hs_ret, cl_ret, hs_calls, cl_calls,
                   winVars, clVars, cache_exists, interrupts, sigint_pending,
                   term_pending, proc, exit_status, apiVars, emuVars>>

\* First statement of handle_shutdown for the built platform.
HandleShutdownEntry_RequestFirst == "rs_signal"
HandleShutdownEntry == IF platform = "unix" THEN "kill" ELSE "open"

\* ctrl_c().await resolves; the block calls handle_shutdown(&config_clone, pid).
ListenerWake ==
    /\ Alive /\ l_pc = "wait" /\ sigint_pending
    /\ sigint_pending' = FALSE
    /\ l_pc' = HandleShutdownEntry
    /\ hs_calls' = hs_calls + 1
    /\ UNCHANGED <<platform, cfgVars, mainVars, hs_ret, cl_ret, cl_calls, winVars,
                   clVars, cache_exists, interrupts, handler_installed, term_pending,
                   proc, exit_status, apiVars, emuVars>>

(***************************************************************************)
(* platform_specific.rs: unix::handle_shutdown                             *)
(***************************************************************************)
\* signal::kill(Pid::from_raw(pid), SIGTERM), pid being this process's own id
HsKill ==
    /\ Alive /\ l_pc = "kill"
    /\ \/ /\ term_pending' = TRUE
          /\ l_pc' = "rs_signal"
          /\ UNCHANGED hs_ret
       \/ /\ hs_ret' = "kill_err"
          /\ l_pc' = "hs_q"
          /\ UNCHANGED term_pending
    /\ UNCHANGED <<platform, cfgVars, mainVars, cl_ret, hs_calls, cl_calls, winVars,
                   clVars, cache_exists, interrupts, handler_installed, sigint_pending,
                   proc, exit_status, apiVars, emuVars>>

(***************************************************************************)
(* platform_specific.rs: windows::handle_shutdown                          *)
(***************************************************************************)
\* OpenProcess(PROCESS_TERMINATE, 0, pid); handle == 0 returns the error
HsOpen ==
    /\ Alive /\ l_pc = "open"
    /\ \/ /\ handle' = "open"
          /\ l_pc' = "terminate"
          /\ UNCHANGED hs_ret
       \/ /\ hs_ret' = "open_err"
          /\ l_pc' = "hs_q"
          /\ UNCHANGED handle
    /\ UNCHANGED <<platform, cfgVars, mainVars, cl_ret, hs_calls, cl_calls,
                   terminate_result, close_result, clVars, cache_exists, osVars, apiVars, emuVars>>

\* the statement after TerminateProcess: CloseHandle, whatever the result
AfterTerminate_EarlyReturn(r) == IF r = 0 THEN "check" ELSE "close"
AfterTerminate(r) == "close"

\* let terminate_result = TerminateProcess(handle, 0)
HsTerminate ==
    /\ Alive /\ l_pc = "terminate"
    /\ \E r \in {0, 1} :
          /\ terminate_result' = r
          /\ term_pending' = (r = 1)
          /\ l_pc' = AfterTerminate(r)
    /\ UNCHANGED <<platform, cfgVars, mainVars, hs_ret, cl_ret, hs_calls, cl_calls,
                   handle, close_result, clVars, cache_exists, interrupts,
                   handler_installed, sigint_pending, proc, exit_status, apiVars, emuVars>>

\* let close_result = CloseHandle(handle)
HsClose ==
    /\ Alive /\ l_pc = "close"
    /\ \E r \in {0, 1} :
          /\ close_result' = r
          /\ handle' = IF r = 1 THEN "closed" ELSE "leaked"
    /\ l_pc' = "check"
    /\ UNCHANGED <<platform, cfgVars, mainVars, hs_ret, cl_ret, hs_calls, cl_calls,
                   terminate_result, clVars, cache_exists, osVars, apiVars, emuVars>>

HsCheck_NoCloseCheck ==
    /\ Alive /\ l_pc = "check"
    /\ IF terminate_result = 0
          THEN hs_ret' = "terminate_err" /\ l_pc' = "hs_q"
          ELSE l_pc' = "rs_signal" /\ UNCHANGED hs_ret
    /\ UNCHANGED <<platform, cfgVars, mainVars, cl_ret, hs_calls, cl_calls, winVars,
                   clVars, cache_exists, osVars, apiVars, emuVars>>

\* if terminate_result == 0 { return Err } if close_result == 0 { return Err }
HsCheck ==
    /\ Alive /\ l_pc = "check"
    /\ IF terminate_result = 0
          THEN hs_ret' = "terminate_err" /\ l_pc' = "hs_q"
          ELSE IF close_result = 0
                  THEN hs_ret' = "close_err" /\ l_pc' = "hs_q"
                  ELSE l_pc' = "rs_signal" /\ UNCHANGED hs_ret
    /\ UNCHANGED <<platform, cfgVars, mainVars, cl_ret, hs_calls, cl_calls, winVars,
                   clVars, cache_exists, osVars, apiVars, emuVars>>

RsSignal_StateFirst ==
    /\ Alive /\ l_pc = "rs_signal"
    /\ request_shutdown_state
    /\ l_pc' = "rs_state"
    /\ UNCHANGED <<platform, shutdown_signal, mainVars, hs_ret, cl_ret, hs_calls,
                   cl_calls, winVars, clVars, cache_exists, osVars, apiVars, emuVars>>

(***************************************************************************)
(* config.request_shutdown()? as the last statement of handle_shutdown     *)
(***************************************************************************)
RsSignal ==
    /\ Alive /\ l_pc = "rs_signal"
    /\ request_shutdown_signal
    /\ l_pc' = "rs_state"
    /\ UNCHANGED <<platform, shutdown_state, mainVars, hs_ret, cl_ret, hs_calls,
                   cl_calls, winVars, clVars, cache_exists, osVars, apiVars, emuVars>>

\* the second store; request_shutdown returns Ok(()) and so does handle_shutdown
RsState ==
    /\ Alive /\ l_pc = "rs_state"
    /\ request_shutdown_state
    /\ hs_ret' = "ok"
    /\ l_pc' = "hs_q"
    /\ UNCHANGED <<platform, shutdown_signal, mainVars, cl_ret, hs_calls, cl_calls,
                   winVars, clVars, cache_exists, osVars, apiVars, emuVars>>

\* the `?` on handle_shutdown's result: Ok goes on to cleanup_resources, Err
\* makes the block's result Err
AfterHandleShutdown_Ignored(r) == "cl_gc"
AfterHandleShutdown(r) == IF r = "ok" THEN "cl_gc" ELSE "exit1"

HsQ ==
    /\ Alive /\ l_pc = "hs_q"
    /\ l_pc' = AfterHandleShutdown(hs_ret)
    /\ IF l_pc' = "cl_gc"
          THEN /\ cl_calls' = cl_calls + 1
               /\ cl_elapsed' = 0
               /\ cl_inner' = "none"
          ELSE UNCHANGED <<cl_calls, cl_elapsed, cl_inner>>
    /\ UNCHANGED <<platform, cfgVars, mainVars, hs_ret, cl_ret, hs_calls, winVars,
                   gc_result, rm_result, cache_exists, osVars, apiVars, emuVars>>

(***************************************************************************)
(* platform_specific.rs: cleanup::cleanup_resources                        *)
(* The async block given to timeout() holds no .await: it runs to its end  *)
(* within one poll, however long its steps take.                           *)
(***************************************************************************)
\* Python::with_gil(|py| py.run("import gc; gc.collect()")): an error is logged
ClGc ==
    /\ Alive /\ l_pc = "cl_gc"
    /\ \E d \in 0..MaxStepSecs, r \in {"ok", "err"} :
          /\ cl_elapsed' = cl_elapsed + d
          /\ gc_result' = r
    /\ l_pc' = "cl_cwd"
    /\ UNCHANGED <<platform, cfgVars, mainVars, hs_ret, cl_ret, hs_calls, cl_calls,
                   winVars, cl_inner, rm_result, cache_exists, osVars, apiVars, emuVars>>

\* std::env::current_dir()?: an error is the block's value
ClCwd ==
    /\ Alive /\ l_pc = "cl_cwd"
    /\ \/ /\ l_pc' = "cl_exists"
          /\ UNCHANGED cl_inner
       \/ /\ cl_inner' = "io_err"
          /\ l_pc' = "cl_poll"
    /\ UNCHANGED <<platform, cfgVars, mainVars, hs_ret, cl_ret, hs_calls, cl_calls,
                   winVars, cl_elapsed, gc_result, rm_result, cache_exists, osVars,
                   apiVars, emuVars>>

\* if cache_path.exists()
ClExists ==
    /\ Alive /\ l_pc = "cl_exists"
    /\ IF cache_exists
          THEN l_pc' = "cl_rm" /\ UNCHANGED cl_inner
          ELSE l_pc' = "cl_poll" /\ cl_inner' = "ok"
    /\ UNCHANGED <<platform, cfgVars, mainVars, hs_ret, cl_ret, hs_calls, cl_calls,
                   winVars, cl_elapsed, gc_result, rm_result, cache_exists, osVars,
                   apiVars, emuVars>>

\* fs::remove_dir_all(&cache_path): an error is logged; then Ok(())
ClRm ==
    /\ Alive /\ l_pc = "cl_rm"
    /\ \E d \in 0..MaxStepSecs, r \in {"ok", "err"} :
          /\ cl_elapsed' = cl_elapsed + d
          /\ rm_result' = r
          /\ cache_exists' = (r = "err")
    /\ cl_inner' = "ok"
    /\ l_pc' = "cl_poll"
    /\ UNCHANGED <<platform, cfgVars, mainVars, hs_ret, cl_ret, hs_calls, cl_calls,
                   winVars, gc_result, osVars, apiVars, emuVars>>

\* The poll of the Timeout future returns: the block is ready.
\* .await.map_err(|_| anyhow!("Cleanup timeout exceeded"))?
ClPoll ==
    /\ Alive /\ l_pc = "cl_poll"
    /\ cl_ret' = TimeoutPoll(TRUE, cl_inner, cl_elapsed)
    /\ l_pc' = "cl_q"
    /\ UNCHANGED <<platform, cfgVars, mainVars, hs_ret, hs_calls, cl_calls, winVars,
                   clVars, cache_exists, osVars, apiVars, emuVars>>

\* the `?` on cleanup_resources's result
AfterCleanup(r) == IF r = "ok" THEN "set_completed" ELSE "exit1"

ClQ ==
    /\ Alive /\ l_pc = "cl_q"
    /\ l_pc' = AfterCleanup(cl_ret)
    /\ UNCHANGED <<platform, cfgVars, mainVars, hs_ret, cl_ret, hs_calls, cl_calls,
                   winVars, clVars, cache_exists, osVars, apiVars, emuVars>>

(***************************************************************************)
(* main.rs: the end of the listener's block                                *)
(***************************************************************************)
\* where the task goes once the block returned Ok: it ends
AfterCompleted_Loop == "wait"
AfterCompleted == "done"

\* config_clone.set_shutdown_state(ShutdownState::Completed); Ok(())
SetCompleted ==
    /\ Alive /\ l_pc = "set_completed"
    /\ set_shutdown_state(Completed)
    /\ l_pc' = AfterCompleted
    /\ UNCHANGED <<platform, shutdown_signal, mainVars, hs_ret, cl_ret, hs_calls,
                   cl_calls, winVars, clVars, cache_exists, osVars, apiVars, emuVars>>

\* if let Err(e) = result { error!(..); std::process::exit(1) }
Exit1 ==
    /\ Alive /\ l_pc = "exit1"
    /\ proc' = "dead"
    /\ exit_status' = "1"
    /\ UNCHANGED <<platform, cfgVars, mainVars, lstVars, winVars, clVars, cache_exists,
                   interrupts, handler_installed, sigint_pending, term_pending, apiVars, emuVars>>

(***************************************************************************)
(* main.rs: the main task after tokio::spawn                               *)
(***************************************************************************)
MainNext(pc) ==
    CASE pc = "setup" -> "cache"
      [] pc = "cache" -> "imports"
      [] pc = "imports" -> "automation"
      [] OTHER -> "returned"

MainStep_ShutdownOnError ==
    /\ Alive /\ m_pc \in {"setup", "cache", "imports", "automation"}
    /\ \/ /\ m_pc' = MainNext(m_pc)
          /\ m_res' = IF m_pc = "automation" THEN "ok" ELSE m_res
          /\ cache_exists' = IF m_pc = "cache" THEN TRUE ELSE cache_exists
          /\ UNCHANGED cfgVars
       \/ /\ m_pc' = "returned"
          /\ m_res' = "err"
          /\ request_shutdown_signal /\ request_shutdown_state
          /\ UNCHANGED cache_exists
    /\ UNCHANGED <<platform, lstVars, winVars, clVars, osVars, apiVars, emuVars>>

\* PythonSetup::new()?; ensure_environment()?   /  create_dir_all(..)?  /
\* the import probes  /  run_automation().await: each goes on, or returns Err
MainStep ==
    /\ Alive /\ m_pc \in {"setup", "cache", "imports", "automation"}
    /\ \/ /\ m_pc' = MainNext(m_pc)
          /\ m_res' = IF m_pc = "automation" THEN "ok" ELSE m_res
          /\ cache_exists' = IF m_pc = "cache" THEN TRUE ELSE cache_exists
       \/ /\ m_pc' = "returned"
          /\ m_res' = "err"
          /\ UNCHANGED cache_exists
    /\ UNCHANGED <<platform, cfgVars, lstVars, winVars, clVars, osVars, apiVars, emuVars>>

\* main() returned: the runtime is dropped, which waits for the poll a worker is
\* in and drops the tasks that are suspended; then the process exits.
MainExit ==
    /\ Alive /\ m_pc = "returned" /\ ~InPoll
    /\ proc' = "dead"
    /\ exit_status' = IF m_res = "ok" THEN "0" ELSE "1"
    /\ UNCHANGED <<platform, cfgVars, mainVars, lstVars, winVars, clVars, cache_exists,
                   interrupts, handler_installed, sigint_pending, term_pending, apiVars, emuVars>>

(***************************************************************************)
(* The operating system                                                    *)
(***************************************************************************)
\* A SIGINT arrives. With tokio's handler registered it wakes a waiting ctrl_c()
\* future and is otherwise swallowed; with no handler its default action ends
\* the process.
Interrupt ==
    /\ Alive /\ interrupts < MaxInterrupts
    /\ interrupts' = interrupts + 1
    /\ IF handler_installed
          THEN /\ sigint_pending' = (sigint_pending \/ l_pc = "wait")
               /\ UNCHANGED <<proc, exit_status>>
          ELSE /\ proc' = "dead"
               /\ exit_status' = "SIGINT"
               /\ UNCHANGED sigint_pending
    /\ UNCHANGED <<platform, cfgVars, mainVars, lstVars, winVars, clVars, cache_exists,
                   handler_installed, term_pending, apiVars, emuVars>>

\* The termination the terminator asked for takes effect: SIGTERM's default
\* action (no handler for it is installed), or TerminateProcess(handle, 0),
\* whose second argument is the exit code.
TerminationStatus == IF platform = "unix" THEN "SIGTERM" ELSE "0"

DeliverTermination ==
    /\ Alive /\ term_pending
    /\ proc' = "dead"
    /\ exit_status' = TerminationStatus
    /\ UNCHANGED <<platform, cfgVars, mainVars, lstVars, winVars, clVars, cache_exists,
                   interrupts, handler_installed, sigint_pending, term_pending, apiVars, emuVars>>

(***************************************************************************)
(* The run of the process                                                  *)
(***************************************************************************)
Callers == 1..NumCallers

NoCall == <<FALSE, -1>>

ApiIdle ==
    /\ c_pc = [c \in Callers |-> "idle"]
    /\ c_calls = [c \in Callers |-> 0]
    /\ c_left = [c \in Callers |-> NoCall]
    /\ co_pc = "idle"

\* The state when tokio::spawn has returned in main().
ProcessStart ==
    /\ SystemConfig_new
    /\ m_pc = "setup" /\ m_res = "none"
    /\ l_pc = "spawned"
    /\ hs_ret = "none" /\ cl_ret = "none"
    /\ hs_calls = 0 /\ cl_calls = 0
    /\ handle = "none" /\ terminate_result = -1 /\ close_result = -1
    /\ cl_inner = "none" /\ cl_elapsed = 0
    /\ gc_result = "none" /\ rm_result = "none"
    /\ interrupts = 0
    /\ handler_installed = FALSE /\ sigint_pending = FALSE
    /\ term_pending = FALSE
    /\ proc = "alive" /\ exit_status = "none"
    /\ EmuStart

Init ==
    /\ platform \in {"unix", "windows"}
    /\ cache_exists \in BOOLEAN
    /\ ProcessStart
    /\ ApiIdle

Next ==
    \/ ListenerRegister
    \/ ListenerWake
    \/ HsKill
    \/ HsOpen
    \/ HsTerminate
    \/ HsClose
    \/ HsCheck
    \/ RsSignal
    \/ RsState
    \/ HsQ
    \/ ClGc
    \/ ClCwd
    \/ ClExists
    \/ ClRm
    \/ ClPoll
    \/ ClQ
    \/ SetCompleted
    \/ Exit1
    \/ MainStep
    \/ MainExit
    \/ Interrupt
    \/ DeliverTermination

Spec == Init /\ [][Next]_vars

(***************************************************************************)
(* Properties of the run of the process                                    *)
(***************************************************************************)
HsFailed == hs_ret \notin {"none", "ok"}
ClFailed == cl_ret \notin {"none", "ok"}

\* C1: in every run of the process no step stores a shutdown phase lower than
\* the one currently stored (Running < ShuttingDown < Completed), whatever the
\* terminator and the reclaimer return.
C1_PhaseNeverRegresses == [][shutdown_state' >= shutdown_state]_vars

\* C1 witness: the phase went all the way to Completed.
C1_Witness == shutdown_state = Completed /\ hs_ret = "ok" /\ cl_ret = "ok"

\* C2: cleanup_resources is called only after handle_shutdown returned Ok, it is
\* running only then, and Completed is stored only after cleanup_resources
\* returned Ok.
C2_TerminateReclaimComplete ==
    /\ cl_calls > 0 => hs_ret = "ok"
    /\ l_pc \in {"cl_gc", "cl_cwd", "cl_exists", "cl_rm", "cl_poll", "cl_q"} => hs_ret = "ok"
    /\ (l_pc = "set_completed" \/ shutdown_state = Completed) => cl_ret = "ok"

\* C2 witness: a whole sequence ran, Completed is stored.
C2_Witness == shutdown_state = Completed /\ cl_calls = 1 /\ hs_calls = 1

\* C3: a reclamation that took longer than the 5-second deadline returns the
\* timeout error and never success.
C3_TimeoutReported ==
    (cl_ret # "none" /\ cl_elapsed > CLEANUP_TIMEOUT) => cl_ret = "timeout"

\* C4: handle_shutdown advances the phase exactly when it succeeds: after an
\* error the signal flag and the phase are as before the call (false, Running);
\* when it returns Ok the flag is true and the phase is ShuttingDown.
C4_AdvanceIffSuccess ==
    /\ HsFailed => (~shutdown_signal /\ shutdown_state = Running)
    /\ (l_pc = "hs_q" /\ hs_ret = "ok") => (shutdown_signal /\ shutdown_state = ShuttingDown)
    /\ shutdown_state # Running => hs_ret = "ok"

\* C4 witness: handle_shutdown has just returned Ok.
C4_Witness == l_pc = "hs_q" /\ hs_ret = "ok" /\ shutdown_state = ShuttingDown

\* C5: the phase is Completed only when terminator and reclaimer both returned
\* Ok; when either failed the process ends with a non-zero exit status and the
\* phase is never Completed.
C5_CompletedOnlyOnSuccess ==
    /\ shutdown_state = Completed => (hs_ret = "ok" /\ cl_ret = "ok")
    /\ (HsFailed \/ ClFailed) => shutdown_state # Completed
    /\ (proc = "dead" /\ (HsFailed \/ ClFailed)) => exit_status # "0"

\* C6: no run ends after the listener received an interrupt without the
\* termination request having been sent and the reclaimer having run.
C6_ReclaimBeforeExit ==
    (proc = "dead" /\ hs_calls > 0) => (term_pending /\ cl_calls > 0 /\ cl_ret # "none")

\* C7: after an interrupt with terminator and reclaimer both successful the
\* phase reaches Completed; stated on the finished run.
C7_ReachesCompleted ==
    (proc = "dead" /\ hs_ret = "ok" /\ cl_ret = "ok") => shutdown_state = Completed

\* C10 (as claimed): at the moment the termination is requested from the OS
\* the phase is already ShuttingDown.
SignalSent == ~term_pending /\ term_pending'

C10_PhaseBeforeSignal == [][SignalSent => shutdown_state = ShuttingDown]_vars

\* C10 (amended): the termination is requested while the phase is Running, the
\* request itself leaves the phase alone, and the phase is other than Running
\* only once the request was made.
C10_SignalBeforePhase ==
    /\ [][SignalSent => (shutdown_state = Running /\ shutdown_state' = Running)]_vars
    /\ [](shutdown_state # Running => term_pending)

\* C10 witness: the signal is out and the phase has then moved to ShuttingDown.
C10_Witness == term_pending /\ shutdown_state = ShuttingDown /\ l_pc = "hs_q"

(***************************************************************************)
(* SystemConfig shared by several tasks: the coordinator (request_shutdown *)
(* through handle_shutdown, later the store of Completed) and further      *)
(* callers of the public request_shutdown.                                 *)
(***************************************************************************)
procVars == <<platform, mainVars, lstVars, winVars, clVars, cache_exists, osVars,
              emuVars>>

\* a caller enters request_shutdown
ApiCall(c) ==
    /\ c_pc[c] = "idle" /\ c_calls[c] < MaxCalls
    /\ c_pc' = [c_pc EXCEPT ![c] = "rs_signal"]
    /\ UNCHANGED <<cfgVars, c_calls, c_left, co_pc, procVars>>

\* self.shutdown_signal.store(true, SeqCst)
ApiRsSignal(c) ==
    /\ c_pc[c] = "rs_signal"
    /\ request_shutdown_signal
    /\ c_pc' = [c_pc EXCEPT ![c] = "rs_state"]
    /\ UNCHANGED <<shutdown_state, c_calls, c_left, co_pc, procVars>>

\* self.set_shutdown_state(ShuttingDown); Ok(())
ApiRsState(c) ==
    /\ c_pc[c] = "rs_state"
    /\ request_shutdown_state
    /\ c_pc' = [c_pc EXCEPT ![c] = "idle"]
    /\ c_calls' = [c_calls EXCEPT ![c] = @ + 1]
    /\ c_left' = [c_left EXCEPT ![c] = <<shutdown_signal, shutdown_state'>>]
    /\ UNCHANGED <<shutdown_signal, co_pc, procVars>>

\* the coordinator: handle_shutdown's request_shutdown, then
\* set_shutdown_state(Completed) once cleanup_resources returned Ok
CoNext(pc) ==
    CASE pc = "idle" -> "rs_signal"
      [] pc = "rs_signal" -> "rs_state"
      [] pc = "rs_state" -> "set_completed"
      [] OTHER -> "done"

CoStep ==
    /\ co_pc # "done"
    /\ co_pc' = CoNext(co_pc)
    /\ CASE co_pc = "rs_signal" -> request_shutdown_signal /\ UNCHANGED shutdown_state
         [] co_pc = "rs_state" -> request_shutdown_state /\ UNCHANGED shutdown_signal
         [] co_pc = "set_completed" -> set_shutdown_state(Completed) /\ UNCHANGED shutdown_signal
         [] OTHER -> UNCHANGED cfgVars
    /\ UNCHANGED <<c_pc, c_calls, c_left, procVars>>

ApiInit ==
    /\ platform = "unix"
    /\ cache_exists = FALSE
    /\ ProcessStart
    /\ ApiIdle

ApiNext ==
    \/ \E c \in Callers : ApiCall(c)
    \/ \E c \in Callers : ApiRsSignal(c)
    \/ \E c \in Callers : ApiRsState(c)
    \/ CoStep

ApiSpec == ApiInit /\ [][ApiNext]_vars

(***************************************************************************)
(* Properties of the shared SystemConfig                                   *)
(***************************************************************************)
Returns(c) == c_pc[c] = "rs_state" /\ c_pc'[c] = "idle"

\* C8: request_shutdown, called in any phase, leaves the signal flag true and
\* the phase ShuttingDown when it returns; a repeated call by the same caller
\* leaves both as its previous call left them, and once a call returned the
\* phase is ShuttingDown or later.
C8_RequestShutdownIdempotent ==
    /\ [][\A c \in Callers :
            Returns(c) =>
               /\ shutdown_signal' /\ shutdown_state' = ShuttingDown
               /\ c_left[c] # NoCall => <<shutdown_signal', shutdown_state'>> = c_left[c]]_vars
    /\ [](\A c \in Callers :
            c_calls[c] > 0 => (shutdown_signal /\ shutdown_state >= ShuttingDown))

\* C8 witness: a caller has called twice, the second time after the coordinator
\* stored Completed.
C8_Witness ==
    \E c \in Callers :
       /\ c_calls[c] >= 2 /\ c_pc[c] = "idle"
       /\ co_pc = "done"
       /\ shutdown_state = ShuttingDown
       /\ c_left[c] = <<TRUE, ShuttingDown>>

\* C9: with request_shutdown callers racing the coordinator, once the
\* coordinator stored Completed the phase is never left lower than Completed.
C9_NoStoreBelowCompleted == co_pc = "done" => shutdown_state = Completed

(***************************************************************************)
(* Properties of the run of the process, continued                         *)
(***************************************************************************)
\* C11: a failing step of the reclaimer neither aborts the sequence nor makes
\* it fail: cleanup_resources returns Ok whenever it returned within the
\* deadline, and an error only when the deadline was exceeded.
C11_StepFailuresSwallowed ==
    /\ (cl_ret # "none" /\ cl_elapsed <= CLEANUP_TIMEOUT) => cl_ret = "ok"
    /\ ClFailed => cl_elapsed > CLEANUP_TIMEOUT

\* C12: no retry: handle_shutdown and cleanup_resources are each called at most
\* once, after an error of either no further call of either is made, and the
\* process then ends with exit status 1.
C12_NoRetryExitOne ==
    /\ hs_calls <= 1 /\ cl_calls <= 1
    /\ HsFailed => cl_calls = 0
    /\ (HsFailed \/ ClFailed) => l_pc \in {"hs_q", "cl_q", "exit1"}
    /\ (proc = "dead" /\ (HsFailed \/ ClFailed)) => exit_status = "1"

\* C13: however many interrupts arrive, also during or after a shutdown
\* sequence, the sequence terminate -> reclaim -> Completed is started at most
\* once: a listener that left ctrl_c().await never waits for an interrupt again.
C13_SequenceStartedOnce ==
    /\ [](hs_calls <= 1 /\ cl_calls <= 1)
    /\ [](hs_calls = 1 => (l_pc # "wait" /\ ~sigint_pending))
    /\ [][hs_calls' >= hs_calls /\ (l_pc = "done" => l_pc' = "done")]_vars

\* C13 witness: a second interrupt arrived, the one sequence ran to Completed.
C13_Witness ==
    /\ interrupts = 2 /\ hs_calls = 1 /\ cl_calls = 1
    /\ shutdown_state = Completed /\ l_pc = "done"

\* C14: the signal flag starts false, every store to it finds it false (so it
\* is set once), it is true once handle_shutdown returned Ok, and no step
\* resets it.
C14_SignalSetOnce ==
    /\ ~shutdown_signal
    /\ [][shutdown_signal => shutdown_signal']_vars
    /\ [][(l_pc = "rs_signal" /\ l_pc' # "rs_signal") => (~shutdown_signal /\ shutdown_signal')]_vars
    /\ [](hs_ret = "ok" => shutdown_signal)

\* C14 witness: the flag is set and a further interrupt has arrived since.
C14_Witness == shutdown_signal /\ interrupts = 2 /\ l_pc = "done"

\* C15: windows: whenever handle_shutdown has returned after OpenProcess
\* succeeded, CloseHandle was called on the handle, also when TerminateProcess
\* failed.
C15_HandleClosedOnEveryPath ==
    (hs_ret # "none" /\ handle # "none") =>
        (close_result \in {0, 1} /\ handle \in {"closed", "leaked"})

\* C15 witness: TerminateProcess failed, handle_shutdown returned, the handle
\* is closed.
C15_Witness ==
    /\ platform = "windows" /\ hs_ret = "terminate_err"
    /\ terminate_result = 0 /\ handle = "closed"

\* C16: windows: handle_shutdown returns Ok iff OpenProcess, TerminateProcess and
\* CloseHandle all succeeded; a failed open, a failed terminate and a failed
\* close (after a successful terminate) are reported each by its own error.
C16_WindowsErrors ==
    (platform = "windows" /\ hs_ret # "none") =>
        /\ hs_ret = "ok" <=> (handle # "none" /\ terminate_result = 1 /\ close_result = 1)
        /\ hs_ret = "open_err" <=> handle = "none"
        /\ hs_ret = "terminate_err" <=> (handle # "none" /\ terminate_result = 0)
        /\ hs_ret = "close_err" <=> (terminate_result = 1 /\ close_result = 0)

\* C16 witness: the termination succeeded, the close failed and is reported.
C16_Witness ==
    /\ platform = "windows" /\ hs_ret = "close_err"
    /\ terminate_result = 1 /\ handle = "leaked"


(***************************************************************************)
(* emulation.rs: initialize_emulation and the two lookups, called by       *)
(* concurrent tasks                                                        *)
(***************************************************************************)
otherVars == <<platform, cfgVars, mainVars, lstVars, winVars, clVars, cache_exists, osVars,
               apiVars>>

DeviceIds == {"ios_device", "android_device", "other_device"}

ERR_SET == "Failed to set global devices"
ERR_NOT_INITIALIZED == "Device manager not initialized"
ERR_NOT_FOUND == "Device not found"

\* A task calls initialize_emulation(), get_device_metadata(id) or get_device_browser(id)
EmuCall(t) ==
    /\ t_pc[t] = "idle" /\ t_ops < MaxOps
    /\ \E kind \in {"initialize", "metadata", "browser"} :
       \E id \in (IF kind = "initialize" THEN {""} ELSE DeviceIds) :
          /\ t_op' = [t_op EXCEPT ![t] = [kind |-> kind, device_id |-> id]]
          /\ t_pc' = [t_pc EXCEPT ![t] = IF kind = "initialize" THEN "i_new" ELSE "g_get"]
    /\ t_ops' = t_ops + 1
    /\ t_res' = [t_res EXCEPT ![t] = NoResult]
    /\ t_dm' = [t_dm EXCEPT ![t] = 0]
    /\ UNCHANGED <<GLOBAL_DEVICES, heap, seen_metadata, seen_browser, otherVars>>

InitNextPc_PublishFirst(pc) ==
    CASE pc = "i_new"     -> "i_set"
      [] pc = "i_set"     -> "i_lock"
      [] pc = "i_lock"    -> "i_ios"
      [] pc = "i_ios"     -> "i_android"
      [] pc = "i_android" -> "i_unlock"
      [] pc = "i_unlock"  -> "idle"

\* initialize_emulation: the order of its steps
InitNextPc(pc) ==
    CASE pc = "i_new"     -> "i_lock"
      [] pc = "i_lock"    -> "i_ios"
      [] pc = "i_ios"     -> "i_android"
      [] pc = "i_android" -> "i_unlock"
      [] pc = "i_unlock"  -> "i_set"
      [] pc = "i_set"     -> "idle"

InitAdvance(t) == t_pc' = [t_pc EXCEPT ![t] = InitNextPc(t_pc[t])]

\* let device_manager = Arc::new(RwLock::new(DeviceManager::new()))
InitNew(t) ==
    /\ t_pc[t] = "i_new"
    /\ LET obj == Len(heap) + 1 IN
          /\ heap' = Append(heap, DeviceManager_new)
          /\ t_dm' = [t_dm EXCEPT ![t] = obj]
    /\ InitAdvance(t)
    /\ UNCHANGED <<GLOBAL_DEVICES, t_op, t_res, t_ops, seen_metadata, seen_browser, otherVars>>

\* let mut manager = device_manager.write().await
InitLock(t) ==
    /\ t_pc[t] = "i_lock"
    /\ heap[t_dm[t]].writer = 0 /\ heap[t_dm[t]].readers = {}
    /\ heap' = [heap EXCEPT ![t_dm[t]].writer = t]
    /\ InitAdvance(t)
    /\ UNCHANGED <<GLOBAL_DEVICES, t_op, t_dm, t_res, t_ops, seen_metadata, seen_browser,
                   otherVars>>

\* manager.create_ios_device("ios_device")?
InitIos(t) ==
    /\ t_pc[t] = "i_ios"
    /\ heap' = [heap EXCEPT ![t_dm[t]].devices = create_ios_device(@, "ios_device")]
    /\ InitAdvance(t)
    /\ UNCHANGED <<GLOBAL_DEVICES, t_op, t_dm, t_res, t_ops, seen_metadata, seen_browser,
                   otherVars>>

\* manager.create_android_device("android_device")?
InitAndroid(t) ==
    /\ t_pc[t] = "i_android"
    /\ heap' = [heap EXCEPT ![t_dm[t]].devices = create_android_device(@, "android_device")]
    /\ InitAdvance(t)
    /\ UNCHANGED <<GLOBAL_DEVICES, t_op, t_dm, t_res, t_ops, seen_metadata, seen_browser,
                   otherVars>>

\* the write guard is dropped at the end of its block
InitUnlock(t) ==
    /\ t_pc[t] = "i_unlock"
    /\ heap' = [heap EXCEPT ![t_dm[t]].writer = 0]
    /\ InitAdvance(t)
    /\ UNCHANGED <<GLOBAL_DEVICES, t_op, t_dm, t_res, t_ops, seen_metadata, seen_browser,
                   otherVars>>

OnceCell_set_Overwrite(cell, value) ==
    [cell |-> value, ok |-> TRUE]

\* OnceCell::set: stores only into an empty cell
OnceCell_set(cell, value) ==
    IF cell = 0 THEN [cell |-> value, ok |-> TRUE] ELSE [cell |-> cell, ok |-> FALSE]

\* GLOBAL_DEVICES.set(device_manager).map_err(|_| anyhow!("Failed to set global devices"))?
InitSet(t) ==
    /\ t_pc[t] = "i_set"
    /\ LET r == OnceCell_set(GLOBAL_DEVICES, t_dm[t]) IN
          /\ GLOBAL_DEVICES' = r.cell
          /\ t_res' = [t_res EXCEPT ![t] = [tag |-> IF r.ok THEN "Ok" ELSE ERR_SET]]
    /\ InitAdvance(t)
    /\ UNCHANGED <<heap, t_op, t_dm, t_ops, seen_metadata, seen_browser, otherVars>>

\* let devices = GLOBAL_DEVICES.get().ok_or_else(|| anyhow!("Device manager not initialized"))?
LookupGet(t) ==
    /\ t_pc[t] = "g_get"
    /\ IF GLOBAL_DEVICES = 0
       THEN /\ t_res' = [t_res EXCEPT ![t] = [tag |-> ERR_NOT_INITIALIZED]]
            /\ t_pc' = [t_pc EXCEPT ![t] = "idle"]
            /\ t_dm' = t_dm
       ELSE /\ t_dm' = [t_dm EXCEPT ![t] = GLOBAL_DEVICES]
            /\ t_pc' = [t_pc EXCEPT ![t] = "g_read"]
            /\ t_res' = t_res
    /\ UNCHANGED <<GLOBAL_DEVICES, heap, t_op, t_ops, seen_metadata, seen_browser, otherVars>>

\* let manager = devices.read().await
LookupRead(t) ==
    /\ t_pc[t] = "g_read"
    /\ heap[t_dm[t]].writer = 0
    /\ heap' = [heap EXCEPT ![t_dm[t]].readers = @ \cup {t}]
    /\ t_pc' = [t_pc EXCEPT ![t] = "g_find"]
    /\ UNCHANGED <<GLOBAL_DEVICES, t_op, t_dm, t_res, t_ops, seen_metadata, seen_browser,
                   otherVars>>

HashMap_get_OrAny(devices, key) ==
    IF DOMAIN devices = {} THEN {} ELSE
    IF key \in DOMAIN devices THEN {devices[key]}
    ELSE {devices[CHOOSE k \in DOMAIN devices : TRUE]}

\* HashMap::get: the entry under `key`, if any (a set of at most one device)
HashMap_get(devices, key) ==
    IF key \in DOMAIN devices THEN {devices[key]} ELSE {}

\* manager.devices.get(device_id).map(|device| device.<field>.clone())
\*     .ok_or_else(|| anyhow!("Device not found")); the read guard is dropped on return
LookupFind(t) ==
    /\ t_pc[t] = "g_find"
    /\ LET found == HashMap_get(heap[t_dm[t]].devices, t_op[t].device_id) IN
       IF found = {}
       THEN /\ t_res' = [t_res EXCEPT ![t] = [tag |-> ERR_NOT_FOUND]]
            /\ UNCHANGED <<seen_metadata, seen_browser>>
       ELSE LET device == CHOOSE d \in found : TRUE IN
            IF t_op[t].kind = "metadata"
            THEN /\ t_res' = [t_res EXCEPT ![t] = [tag |-> "Ok", value |-> device.metadata]]
                 /\ seen_metadata' = seen_metadata \cup {<<t_op[t].device_id, device.metadata>>}
                 /\ seen_browser' = seen_browser
            ELSE /\ t_res' = [t_res EXCEPT ![t] = [tag |-> "Ok", value |-> device.browser]]
                 /\ seen_browser' = seen_browser \cup {<<t_op[t].device_id, device.browser>>}
                 /\ seen_metadata' = seen_metadata
    /\ heap' = [heap EXCEPT ![t_dm[t]].readers = @ \ {t}]
    /\ t_pc' = [t_pc EXCEPT ![t] = "idle"]
    /\ UNCHANGED <<GLOBAL_DEVICES, t_op, t_dm, t_ops, otherVars>>

EmuInit ==
    /\ platform = "unix"
    /\ cache_exists = FALSE
    /\ ProcessStart
    /\ ApiIdle

EmuNext ==
    \E t \in Tasks :
        \/ EmuCall(t)
        \/ InitNew(t)
        \/ InitLock(t)
        \/ InitIos(t)
        \/ InitAndroid(t)
        \/ InitUnlock(t)
        \/ InitSet(t)
        \/ LookupGet(t)
        \/ LookupRead(t)
        \/ LookupFind(t)

EmuSpec == EmuInit /\ [][EmuNext]_vars

\* initialize_emulation's scoped block: what the two create calls put in a new manager
SeededDevices ==
    create_android_device(create_ios_device(DeviceManager_new.devices, "ios_device"),
                          "android_device")

\* The catalog the lookups see: the map of the manager GLOBAL_DEVICES holds
Published == GLOBAL_DEVICES # 0
Catalog == IF Published THEN heap[GLOBAL_DEVICES].devices ELSE DeviceManager_new.devices

\* A task finishes the step of its call that it is at
Leaves(t, pc) == t_pc[t] = pc /\ t_pc'[t] # pc

(***************************************************************************)
(* C17: initialize_emulation takes effect once.  The call that reaches     *)
(* GLOBAL_DEVICES.set while the cell is empty returns Ok and publishes the *)
(* manager it has just filled with the two devices; every call that        *)
(* reaches it afterwards returns the error "Failed to set global devices"  *)
(* and leaves the cell and the published catalog as they were.             *)
(***************************************************************************)
C17_InitializeOnce ==
    [][\A t \in Tasks : Leaves(t, "i_set") =>
          IF ~Published
          THEN /\ t_res'[t].tag = "Ok"
               /\ GLOBAL_DEVICES' = t_dm[t]
               /\ Catalog' = SeededDevices
          ELSE /\ t_res'[t].tag = ERR_SET
               /\ GLOBAL_DEVICES' = GLOBAL_DEVICES
               /\ Catalog' = Catalog]_vars

C17_Witness ==
    /\ Published
    /\ \E t \in Tasks : t_pc[t] = "idle" /\ t_op[t].kind = "initialize" /\ t_res[t].tag = ERR_SET
    /\ \E t \in Tasks : t_pc[t] = "idle" /\ t_op[t].kind = "initialize" /\ t_res[t].tag = "Ok"

(***************************************************************************)
(* C18: both lookups.  A lookup that reads GLOBAL_DEVICES while it is      *)
(* empty returns "Device manager not initialized".  Once the cell is set,  *)
(* a lookup of an id outside the catalog returns "Device not found" and a  *)
(* lookup of an id in it returns Ok with that entry's metadata (or browser *)
(* configuration); no lookup changes the catalog, and all successful       *)
(* lookups of one id have returned the same value.                         *)
(***************************************************************************)
C18_Lookups ==
    /\ [][\A t \in Tasks : Leaves(t, "g_get") =>
             IF ~Published
             THEN t_pc'[t] = "idle" /\ t_res'[t].tag = ERR_NOT_INITIALIZED
             ELSE t_pc'[t] = "g_read" /\ t_res'[t].tag = "none"]_vars
    /\ [][\A t \in Tasks : Leaves(t, "g_find") =>
             /\ Published /\ GLOBAL_DEVICES' = GLOBAL_DEVICES /\ Catalog' = Catalog
             /\ t_pc'[t] = "idle"
             /\ IF t_op[t].device_id \in DOMAIN Catalog
                THEN /\ t_res'[t].tag = "Ok"
                     /\ t_res'[t].value = IF t_op[t].kind = "metadata"
                                          THEN Catalog[t_op[t].device_id].metadata
                                          ELSE Catalog[t_op[t].device_id].browser
                ELSE t_res'[t].tag = ERR_NOT_FOUND]_vars
    /\ [](\A p, q \in seen_metadata : p[1] = q[1] => p = q)
    /\ [](\A p, q \in seen_browser : p[1] = q[1] => p = q)

C18_Witness ==
    /\ \A t \in Tasks : t_pc[t] = "idle" /\ t_res[t].tag = "Ok"
                        /\ t_op[t] = [kind |-> "browser", device_id |-> "android_device"]
    /\ Cardinality(seen_browser) = 1
    /\ t_ops = MaxOps

(***************************************************************************)
(* C19: once GLOBAL_DEVICES is set it keeps holding the same manager, and  *)
(* that manager's map stays the two seeded entries under every later       *)
(* interleaving of initialize and lookup calls; no task ever holds the     *)
(* write lock of the published manager, and no manager has a writer while  *)
(* it has a reader.                                                        *)
(***************************************************************************)
C19_CatalogImmutable ==
    /\ [][Published => (GLOBAL_DEVICES' = GLOBAL_DEVICES /\ Catalog' = Catalog)]_vars
    /\ [](Published => Catalog = SeededDevices)
    /\ [](Published => heap[GLOBAL_DEVICES].writer = 0)
    /\ [](\A o \in DOMAIN heap : heap[o].writer # 0 => heap[o].readers = {})

C19_Witness ==
    /\ Published
    /\ heap[GLOBAL_DEVICES].readers # {}
    /\ \E t \in Tasks : t_pc[t] = "i_android" /\ heap[t_dm[t]].writer = t
    /\ Catalog = SeededDevices

(***************************************************************************)
(* C20: when main hands control to the automation host (run_automation),   *)
(* initialize_emulation has completed: GLOBAL_DEVICES holds the catalog.   *)
(***************************************************************************)
C20_CatalogReadyAtHandoff ==
    m_pc = "automation" => Published

(***************************************************************************)
(* emulation.rs: DeviceManager used directly.  A task makes a manager of   *)
(* its own with DeviceManager::new() and, as its only owner (&mut self),   *)
(* calls create_ios_device / create_android_device on it with any ids in   *)
(* any order.                                                              *)
(***************************************************************************)
\* let mut manager = DeviceManager::new()
FactoryNew(t) ==
    /\ t_pc[t] = "idle" /\ t_dm[t] = 0
    /\ heap' = Append(heap, [DeviceManager_new EXCEPT !.writer = t])
    /\ t_dm' = [t_dm EXCEPT ![t] = Len(heap) + 1]
    /\ UNCHANGED <<GLOBAL_DEVICES, t_pc, t_op, t_res, t_ops, seen_metadata, seen_browser,
                   otherVars>>

\* manager.create_ios_device(id)
FactoryCreateIos(t) ==
    /\ t_pc[t] = "idle" /\ t_dm[t] # 0 /\ t_ops < MaxOps
    /\ \E id \in DeviceIds :
          /\ heap' = [heap EXCEPT ![t_dm[t]].devices = create_ios_device(@, id)]
          /\ t_op' = [t_op EXCEPT ![t] = [kind |-> "create_ios_device", device_id |-> id]]
    /\ t_res' = [t_res EXCEPT ![t] = [tag |-> "Ok"]]
    /\ t_ops' = t_ops + 1
    /\ UNCHANGED <<GLOBAL_DEVICES, t_pc, t_dm, seen_metadata, seen_browser, otherVars>>

\* manager.create_android_device(id)
FactoryCreateAndroid(t) ==
    /\ t_pc[t] = "idle" /\ t_dm[t] # 0 /\ t_ops < MaxOps
    /\ \E id \in DeviceIds :
          /\ heap' = [heap EXCEPT ![t_dm[t]].devices = create_android_device(@, id)]
          /\ t_op' = [t_op EXCEPT ![t] = [kind |-> "create_android_device", device_id |-> id]]
    /\ t_res' = [t_res EXCEPT ![t] = [tag |-> "Ok"]]
    /\ t_ops' = t_ops + 1
    /\ UNCHANGED <<GLOBAL_DEVICES, t_pc, t_dm, seen_metadata, seen_browser, otherVars>>

FactoryNext ==
    \E t \in Tasks :
        \/ FactoryNew(t)
        \/ FactoryCreateIos(t)
        \/ FactoryCreateAndroid(t)

FactorySpec == EmuInit /\ [][FactoryNext]_vars

\* Every device stored in any manager
StoredDevices ==
    UNION {{heap[o].devices[k] : k \in DOMAIN heap[o].devices} : o \in DOMAIN heap}

\* Every identity the two generators produce for the ids in use
GeneratedIdentities ==
    {generate_ios_metadata(id) : id \in DeviceIds}
        \cup {generate_android_metadata(id) : id \in DeviceIds}

\* WebViewData: which of the two Option fields are Some
HasWebkitFlags(metadata) == metadata.webview_data.webkit_flags = "Some"
HasChromeFlags(metadata) == metadata.webview_data.chrome_flags = "Some"

(***************************************************************************)
(* C21: every identity the generators produce and every identity stored in *)
(* a manager has exactly one capability-flag variant: platform IOS iff     *)
(* webkit_flags is Some and chrome_flags is None, platform Android iff     *)
(* chrome_flags is Some and webkit_flags is None.                          *)
(***************************************************************************)
C21_OneFlagVariant ==
    \A m \in GeneratedIdentities \cup {d.metadata : d \in StoredDevices} :
        /\ m.platform \in {"IOS", "Android"}
        /\ m.platform = "IOS" <=> (HasWebkitFlags(m) /\ ~HasChromeFlags(m))
        /\ m.platform = "Android" <=> (HasChromeFlags(m) /\ ~HasWebkitFlags(m))
        /\ HasWebkitFlags(m) # HasChromeFlags(m)

C21_Witness ==
    \E o \in DOMAIN heap :
        /\ DOMAIN heap[o].devices = {"ios_device", "other_device"}
        /\ heap[o].devices["ios_device"].metadata.platform = "Android"
        /\ heap[o].devices["other_device"].metadata.platform = "IOS"

(***************************************************************************)
(* C22: for both platforms and every device id, the user_agent of the      *)
(* stored identity equals the user_agent of the browser configuration      *)
(* stored with it, in every entry of every manager.                        *)
(***************************************************************************)
C22_UserAgentMatches ==
    \A d \in StoredDevices : d.metadata.user_agent = d.browser.user_agent

C22_Witness ==
    \E o \in DOMAIN heap : \E j, k \in DOMAIN heap[o].devices :
        /\ heap[o].devices[j].metadata.platform = "IOS"
        /\ heap[o].devices[k].metadata.platform = "Android"
        /\ heap[o].devices[j].browser.user_agent # heap[o].devices[k].browser.user_agent
        /\ t_ops = MaxOps

(***************************************************************************)
(* C23: the browser variant matches the platform in every stored entry     *)
(* (IOS with Webkit, Android with ChromiumBased), and once                 *)
(* initialize_emulation has published the catalog it holds exactly         *)
(* "ios_device" (IOS, 390 x 844, Webkit) and "android_device" (Android,    *)
(* ChromiumBased).                                                         *)
(***************************************************************************)
C23_VariantMatchesPlatform ==
    /\ \A d \in StoredDevices :
          /\ d.metadata.platform = "IOS" => d.browser.variant = "Webkit"
          /\ d.metadata.platform = "Android" => d.browser.variant = "ChromiumBased"
    /\ Published =>
          /\ DOMAIN Catalog = {"ios_device", "android_device"}
          /\ Catalog["ios_device"].metadata.platform = "IOS"
          /\ Catalog["ios_device"].metadata.screen_metrics.width = 390
          /\ Catalog["ios_device"].metadata.screen_metrics.height = 844
          /\ Catalog["ios_device"].browser.variant = "Webkit"
          /\ Catalog["android_device"].metadata.platform = "Android"
          /\ Catalog["android_device"].browser.variant = "ChromiumBased"

C23_Witness ==
    /\ Published
    /\ \E t \in Tasks :
          /\ t_pc[t] = "idle" /\ t_res[t].tag = "Ok"
          /\ t_op[t] = [kind |-> "metadata", device_id |-> "ios_device"]
          /\ t_res[t].value.screen_metrics.width = 390
          /\ t_res[t].value.screen_metrics.height = 844
    /\ \E p \in seen_browser : p[1] = "android_device" /\ p[2].variant = "ChromiumBased"

(***************************************************************************)
(* C24: in every reachable state of the process a phase other than Running *)
(* implies the shutdown signal flag is true.  request_shutdown stores the  *)
(* flag before the phase, so (signal true, phase Running) can be seen, but *)
(* (signal false, phase ShuttingDown or Completed) never.                  *)
(***************************************************************************)
C24_PhaseImpliesSignal ==
    shutdown_state # Running => shutdown_signal

C24_Witness ==
    shutdown_signal /\ shutdown_state = Running /\ l_pc = "rs_state"

SeedIds == {"ios_device", "android_device"}

\* A task whose last call was a lookup of a seed id and has returned
SeedLookupDone(t) ==
    /\ t_pc[t] = "idle"
    /\ t_op[t].kind \in {"metadata", "browser"}
    /\ t_op[t].device_id \in SeedIds

(***************************************************************************)
(* C25: a lookup running concurrently with initialize_emulation never sees *)
(* a partly populated catalog.  For "ios_device" and "android_device" it   *)
(* returns either "Device manager not initialized" or the complete entry's *)
(* value, never "Device not found"; and the manager GLOBAL_DEVICES holds   *)
(* has both entries from the moment it is published.                       *)
(***************************************************************************)
C25_NoPartialCatalog ==
    /\ \A t \in Tasks : SeedLookupDone(t) =>
          /\ t_res[t].tag \in {ERR_NOT_INITIALIZED, "Ok"}
          /\ t_res[t].tag = "Ok" =>
                t_res[t].value = IF t_op[t].kind = "metadata"
                                 THEN SeededDevices[t_op[t].device_id].metadata
                                 ELSE SeededDevices[t_op[t].device_id].browser
    /\ Published => SeedIds \subseteq DOMAIN Catalog

C25_Witness ==
    /\ ~Published
    /\ \E a, b \in Tasks :
          /\ SeedLookupDone(a) /\ t_op[a].device_id = "android_device"
          /\ t_res[a].tag = ERR_NOT_INITIALIZED
          /\ t_pc[b] = "i_android"
          /\ DOMAIN heap[t_dm[b]].devices = {"ios_device"}

\* A task whose last call was initialize_emulation and has returned
InitDone(t) == t_pc[t] = "idle" /\ t_op[t].kind = "initialize"

(***************************************************************************)
(* C26: of the initialize_emulation calls made by concurrent tasks exactly *)
(* one returns Ok and all others return an error.  A call returns Ok only  *)
(* by filling the empty cell, a returned call succeeded iff the manager it *)
(* built is the one GLOBAL_DEVICES holds, once any call has returned the   *)
(* cell is set, and the manager in the cell is never replaced.             *)
(***************************************************************************)
C26_OneInitializeWins ==
    /\ [](\A t \in Tasks : InitDone(t) =>
             /\ Published
             /\ t_res[t].tag \in {"Ok", ERR_SET}
             /\ t_res[t].tag = "Ok" <=> GLOBAL_DEVICES = t_dm[t])
    /\ [](\A a, b \in Tasks :
             (InitDone(a) /\ InitDone(b) /\ t_res[a].tag = "Ok" /\ t_res[b].tag = "Ok") => a = b)
    /\ [][\A t \in Tasks : (Leaves(t, "i_set") /\ t_res'[t].tag = "Ok") =>
             (~Published /\ GLOBAL_DEVICES' = t_dm[t])]_vars
    /\ [][Published => GLOBAL_DEVICES' = GLOBAL_DEVICES]_vars

C26_Witness ==
    \E a, b \in Tasks :
        /\ InitDone(a) /\ InitDone(b)
        /\ t_dm[a] < t_dm[b]
        /\ GLOBAL_DEVICES = t_dm[b]
        /\ t_res[a].tag = ERR_SET /\ t_res[b].tag = "Ok"

(***************************************************************************)
(* C27: only the interrupt-triggered sequence changes the shutdown state.  *)
(* While no interrupt has arrived the phase is Running and the signal flag *)
(* is false, in every state up to process exit, whether the set-up, the    *)
(* import probes and the automation hand-off succeed or fail.              *)
(***************************************************************************)
C27_NoInterruptNoShutdown ==
    interrupts = 0 => (shutdown_state = Running /\ ~shutdown_signal)

C27_Witness ==
    /\ interrupts = 0 /\ proc = "dead" /\ m_pc = "returned" /\ m_res = "err"
    /\ cache_exists
    /\ shutdown_state = Running /\ ~shutdown_signal

\* The platform a create call gives the entry it stores
CreatedPlatform(kind) == IF kind = "create_ios_device" THEN "IOS" ELSE "Android"

(***************************************************************************)
(* C28: every entry is stored under the device id of its own identity, and *)
(* a create call under an id already present replaces that entry instead   *)
(* of adding one: after the call the manager's keys are the old keys plus  *)
(* the id, the entry under the id is the one just created, and every other *)
(* entry is as it was, so there is at most one entry per device id after   *)
(* any sequence of create_ios_device / create_android_device calls.        *)
(***************************************************************************)
C28_KeyedByOwnId ==
    /\ [](\A o \in DOMAIN heap : \A k \in DOMAIN heap[o].devices :
             heap[o].devices[k].metadata.device_id = k)
    /\ [](\A o \in DOMAIN heap : Cardinality(DOMAIN heap[o].devices) <= t_ops)
    /\ [][t_ops' = t_ops + 1 =>
             \E t \in Tasks :
                LET id == t_op'[t].device_id
                    before == heap[t_dm[t]].devices
                    after == heap'[t_dm[t]].devices
                IN  /\ t_op'[t].kind \in {"create_ios_device", "create_android_device"}
                    /\ DOMAIN after = (DOMAIN before) \cup {id}
                    /\ after[id].metadata.platform = CreatedPlatform(t_op'[t].kind)
                    /\ after[id].metadata.device_id = id
                    /\ \A k \in (DOMAIN before) \ {id} : after[k] = before[k]
                    /\ \A o \in (DOMAIN heap) \ {t_dm[t]} : heap'[o] = heap[o]]_vars

C28_Witness ==
    /\ Len(heap) = 1 /\ t_ops = MaxOps
    /\ DOMAIN heap[1].devices = {"other_device"}
    /\ heap[1].devices["other_device"].metadata.platform = "Android"
    /\ \E t \in Tasks : t_dm[t] = 1 /\ t_op[t].kind = "create_android_device"
====
